---- MODULE Spec2Model ----
(***************************************************************************)
(* College Management API (src/app.py): three in-memory collections with   *)
(* id counters behind a bearer-token gate.                                 *)
(*                                                                         *)
(* A handler is an operator from its inputs and the module globals to its  *)
(* response and the globals it leaves behind; an action commits that       *)
(* result.  Optional values (an unset pydantic field, an absent JWT claim) *)
(* are sets of at most one element: {} is "absent", {v} is "present v".    *)
(* Time is counted in ticks, TicksPerSecond of them to the second.         *)
(***************************************************************************)
EXTENDS Integers, Sequences, FiniteSets, TLC

VARIABLES
    students_db,         \* list of student dicts            (app.py:28)
    courses_db,          \* list of course dicts             (app.py:29)
    enrollments_db,      \* list of enrollment dicts         (app.py:30)
    next_student_id,     \* id counters                      (app.py:31-33)
    next_course_id,
    next_enrollment_id,
    now,                 \* datetime.utcnow(), in ticks
    issued,              \* the /token response a client holds, with its instant
    frames,              \* handler coroutines in flight on the event loop
    created,             \* history: successful Creates per collection
    deleted,             \* history: ids successfully deleted per collection
    overlapped           \* history: completed Creates that shared the loop
                         \* with another Create on the same collection

vars == <<students_db, courses_db, enrollments_db, next_student_id,
          next_course_id, next_enrollment_id, now, issued, frames,
          created, deleted, overlapped>>

store == <<students_db, courses_db, enrollments_db, next_student_id,
           next_course_id, next_enrollment_id>>

-----------------------------------------------------------------------------
(* Bounds of the model *)

MaxCreates == 3        \* successful Creates in a run, all collections together
TicksPerSecond == 2    \* clock resolution below the second
MaxIssueSeconds == 2   \* /token is called within this many seconds of start
MaxInflight == 2       \* coroutines in flight at once

(* Program constants *)

ACCESS_TOKEN_EXPIRE_MINUTES == 60
SECRET_KEY == "your-super-secret-jwt-key-for-fastapi"
VALID_USERNAME == "admin"
VALID_PASSWORD == "password123"

ExpireTicks == ACCESS_TOKEN_EXPIRE_MINUTES * 60 * TicksPerSecond
StartTicks == TicksPerSecond
MaxIssueTicks == StartTicks + MaxIssueSeconds * TicksPerSecond
MaxNow == MaxIssueTicks + ExpireTicks + 2 * TicksPerSecond

-----------------------------------------------------------------------------
(* Helpers *)

Opt(S) == {{}} \cup {{x} : x \in S}
The(s) == CHOOSE x \in s : TRUE
Ids(db) == {db[i].id : i \in 1..Len(db)}

RECURSIVE Filter(_, _)
\* [x for x in db if x["id"] != id]
Filter(db, id) ==
    IF db = <<>> THEN <<>>
    ELSE IF Head(db).id # id THEN <<Head(db)>> \o Filter(Tail(db), id)
         ELSE Filter(Tail(db), id)

Globals == [students_db |-> students_db, courses_db |-> courses_db,
            enrollments_db |-> enrollments_db,
            next_student_id |-> next_student_id,
            next_course_id |-> next_course_id,
            next_enrollment_id |-> next_enrollment_id]

NoBody == <<>>
Response(status, detail, body, g) ==
    [status |-> status, detail |-> detail, body |-> body, g |-> g]

-----------------------------------------------------------------------------
(* Inputs *)

Majors == {"CS", "Math"}
Emails == {"a@b.com"}
Titles == {"Algebra"}
Codes == {"MATH101"}
Credits == {3, 4}
IdInputs == 1..(MaxCreates + 1)
PayloadIds == Opt({MaxCreates + 1})

StudentPayloads == [id : PayloadIds, major : Opt(Majors), email : Opt(Emails)]
CoursePayloads == [id : PayloadIds, title : Opt(Titles), code : Opt(Codes),
                   credits : Opt(Credits)]
EnrollmentPayloads == [id : PayloadIds, student_id : Opt(IdInputs),
                       course_id : Opt(IdInputs)]

Usernames == {"admin", "Admin", "guest"}
Passwords == {"password123", "Password123", "admin"}

-----------------------------------------------------------------------------
(* Token service *)

UtcSeconds(t) == t \div TicksPerSecond

\* jwt.encode (app.py:72): a datetime "exp" claim becomes whole seconds since
\* the epoch (timegm of its utctimetuple, which has no sub-second field); the
\* token is signed with the key.
jwt_encode(sub, expire, key) ==
    [kind |-> "jwt", key |-> key, sub |-> {sub}, exp |-> {UtcSeconds(expire)}]

\* jwt.decode (app.py:82): JWTError on a malformed token, a signature made
\* with another key, or an "exp" claim smaller than the current whole second.
jwt_decode(token, key) ==
    IF token.kind # "jwt" THEN [ok |-> FALSE, sub |-> {}]
    ELSE IF token.key # key THEN [ok |-> FALSE, sub |-> {}]
    ELSE IF token.exp # {} /\ The(token.exp) < UtcSeconds(now)
         THEN [ok |-> FALSE, sub |-> {}]
    ELSE [ok |-> TRUE, sub |-> token.sub]

\* faulty variant: the window taken as seconds instead of minutes
create_access_token_seconds(sub, expires_delta) ==
    LET expire == IF expires_delta # {}
                  THEN now + (The(expires_delta) \div 60)
                  ELSE now + (ExpireTicks \div 60)
    IN  jwt_encode(sub, expire, SECRET_KEY)

create_access_token(sub, expires_delta) ==
    LET expire == IF expires_delta # {} THEN now + The(expires_delta)
                  ELSE now + ExpireTicks
    IN  jwt_encode(sub, expire, SECRET_KEY)

credentials_exception ==
    [status |-> 401, detail |-> <<"Could not validate credentials">>,
     headers |-> "WWW-Authenticate: Bearer", user |-> {}]

oauth2_scheme(token) ==
    IF token.kind = "none"
    THEN [status |-> 401, detail |-> <<"Not authenticated">>,
          headers |-> "WWW-Authenticate: Bearer", user |-> {}]
    ELSE [status |-> 200, detail |-> <<>>, headers |-> "", user |-> {}]

\* faulty variant: the subject is not compared with VALID_USERNAME
get_current_user_any_subject(token) ==
    IF oauth2_scheme(token).status # 200 THEN oauth2_scheme(token)
    ELSE LET payload == jwt_decode(token, SECRET_KEY) IN
         IF ~payload.ok THEN credentials_exception
         ELSE IF payload.sub = {} THEN credentials_exception
         ELSE [status |-> 200, detail |-> <<>>, headers |-> "",
               user |-> payload.sub]

get_current_user(token) ==
    IF oauth2_scheme(token).status # 200 THEN oauth2_scheme(token)
    ELSE LET payload == jwt_decode(token, SECRET_KEY) IN
         IF ~payload.ok THEN credentials_exception
         ELSE IF payload.sub = {} THEN credentials_exception
         ELSE IF The(payload.sub) # VALID_USERNAME THEN credentials_exception
         ELSE [status |-> 200, detail |-> <<>>, headers |-> "",
               user |-> payload.sub]

\* faulty variant: "and" for "or", one matching half is enough
login_either(username, password) ==
    IF username # VALID_USERNAME /\ password # VALID_PASSWORD
    THEN [status |-> 401, detail |-> <<"Incorrect username or password">>,
          headers |-> "WWW-Authenticate: Bearer", body |-> {}]
    ELSE [status |-> 200, detail |-> <<>>, headers |-> "",
          body |-> {[access_token |->
                        create_access_token(username, {ExpireTicks}),
                     token_type |-> "bearer"]}]

login_for_access_token(username, password) ==
    IF username # VALID_USERNAME \/ password # VALID_PASSWORD
    THEN [status |-> 401, detail |-> <<"Incorrect username or password">>,
          headers |-> "WWW-Authenticate: Bearer", body |-> {}]
    ELSE [status |-> 200, detail |-> <<>>, headers |-> "",
          body |-> {[access_token |->
                        create_access_token(username, {ExpireTicks}),
                     token_type |-> "bearer"]}]

\* Bearer credentials a request can carry
NoToken == [kind |-> "none", key |-> "", sub |-> {}, exp |-> {}]
Garbage == [kind |-> "garbage", key |-> "", sub |-> {}, exp |-> {}]
ExpInputs == {UtcSeconds(StartTicks) - 1, UtcSeconds(StartTicks),
              UtcSeconds(StartTicks + ExpireTicks)}
Tokens == {NoToken, Garbage} \cup
          [kind : {"jwt"}, key : {SECRET_KEY, "another-key"},
           sub : Opt({VALID_USERNAME, "guest"}), exp : Opt(ExpInputs)]

\* Depends(get_current_user): the handler runs only when it returns a user
Depends(token, r) ==
    LET u == get_current_user(token) IN
    IF u.status # 200 THEN Response(u.status, u.detail, NoBody, Globals)
    ELSE r

\* request body validation against a pydantic model: every field without a
\* default must be set
Unprocessable == Response(422, <<"field required">>, NoBody, Globals)


-----------------------------------------------------------------------------
(* Create handlers, statement by statement.  A frame is a handler coroutine: *)
(* its program counter, its request body and its local new_<record>.         *)

NewFrame(op, data) ==
    [op |-> op, pc |-> "enter", data |-> data, new |-> {}, resp |-> {},
     peer |-> FALSE]

Raise(g, f, status, detail) ==
    [g |-> g, f |-> [f EXCEPT !.pc = "done",
                     !.resp = {[status |-> status, detail |-> detail,
                                body |-> NoBody]}]]

Return(g, f, status) ==
    [g |-> g, f |-> [f EXCEPT !.pc = "done",
                     !.resp = {[status |-> status, detail |-> <<>>,
                                body |-> The(f.new)]}]]

\* faulty variant: the id taken from the length of the list
add_student_step_by_len(g, f) ==
    CASE f.pc = "enter" ->
           [g |-> g,
            f |-> [f EXCEPT !.pc = "append",
                   !.new = {[id |-> Len(g.students_db) + 1,
                             major |-> The(f.data.major),
                             email |-> The(f.data.email)]}]]
      [] f.pc = "append" ->
           [g |-> [g EXCEPT !.students_db = Append(@, The(f.new))],
            f |-> [f EXCEPT !.pc = "increment"]]
      [] f.pc = "increment" ->
           [g |-> [g EXCEPT !.next_student_id = @ + 1],
            f |-> [f EXCEPT !.pc = "return"]]
      [] f.pc = "return" ->
           Return(g, f, 201)

add_student_step(g, f) ==
    CASE f.pc = "enter" ->       \* 124-125: dict(), id = next_student_id
           [g |-> g,
            f |-> [f EXCEPT !.pc = "append",
                   !.new = {[id |-> g.next_student_id,
                             major |-> The(f.data.major),
                             email |-> The(f.data.email)]}]]
      [] f.pc = "append" ->      \* 126
           [g |-> [g EXCEPT !.students_db = Append(@, The(f.new))],
            f |-> [f EXCEPT !.pc = "increment"]]
      [] f.pc = "increment" ->   \* 127
           [g |-> [g EXCEPT !.next_student_id = @ + 1],
            f |-> [f EXCEPT !.pc = "return"]]
      [] f.pc = "return" ->      \* 128
           Return(g, f, 201)

add_course_step(g, f) ==
    CASE f.pc = "enter" ->       \* 165-166
           [g |-> g,
            f |-> [f EXCEPT !.pc = "append",
                   !.new = {[id |-> g.next_course_id,
                             title |-> The(f.data.title),
                             code |-> The(f.data.code),
                             credits |-> The(f.data.credits)]}]]
      [] f.pc = "append" ->      \* 167
           [g |-> [g EXCEPT !.courses_db = Append(@, The(f.new))],
            f |-> [f EXCEPT !.pc = "increment"]]
      [] f.pc = "increment" ->   \* 168
           [g |-> [g EXCEPT !.next_course_id = @ + 1],
            f |-> [f EXCEPT !.pc = "return"]]
      [] f.pc = "return" ->      \* 169
           Return(g, f, 201)

\* faulty variant: the course lookup is left out
add_enrollment_step_no_course_check(g, f) ==
    CASE f.pc = "enter" ->
           LET student_exists ==
                   \E i \in 1..Len(g.students_db) :
                       g.students_db[i].id = The(f.data.student_id)
           IN  IF ~student_exists
               THEN Raise(g, f, 404, <<"Student with ID ",
                          The(f.data.student_id), " not found">>)
               ELSE [g |-> g,
                     f |-> [f EXCEPT !.pc = "append",
                            !.new = {[id |-> g.next_enrollment_id,
                                      student_id |-> The(f.data.student_id),
                                      course_id |-> The(f.data.course_id)]}]]
      [] f.pc = "append" ->
           [g |-> [g EXCEPT !.enrollments_db = Append(@, The(f.new))],
            f |-> [f EXCEPT !.pc = "increment"]]
      [] f.pc = "increment" ->
           [g |-> [g EXCEPT !.next_enrollment_id = @ + 1],
            f |-> [f EXCEPT !.pc = "return"]]
      [] f.pc = "return" ->
           Return(g, f, 201)

add_enrollment_step(g, f) ==
    CASE f.pc = "enter" ->       \* 206-215
           LET student_exists ==
                   \E i \in 1..Len(g.students_db) :
                       g.students_db[i].id = The(f.data.student_id)
               course_exists ==
                   \E i \in 1..Len(g.courses_db) :
                       g.courses_db[i].id = The(f.data.course_id)
           IN  IF ~student_exists
               THEN Raise(g, f, 404, <<"Student with ID ",
                          The(f.data.student_id), " not found">>)
               ELSE IF ~course_exists
               THEN Raise(g, f, 404, <<"Course with ID ",
                          The(f.data.course_id), " not found">>)
               ELSE [g |-> g,
                     f |-> [f EXCEPT !.pc = "append",
                            !.new = {[id |-> g.next_enrollment_id,
                                      student_id |-> The(f.data.student_id),
                                      course_id |-> The(f.data.course_id)]}]]
      [] f.pc = "append" ->      \* 216
           [g |-> [g EXCEPT !.enrollments_db = Append(@, The(f.new))],
            f |-> [f EXCEPT !.pc = "increment"]]
      [] f.pc = "increment" ->   \* 217
           [g |-> [g EXCEPT !.next_enrollment_id = @ + 1],
            f |-> [f EXCEPT !.pc = "return"]]
      [] f.pc = "return" ->      \* 218
           Return(g, f, 201)

handler_step(g, f) ==
    CASE f.op = "add_student" -> add_student_step(g, f)
      [] f.op = "add_course" -> add_course_step(g, f)
      [] f.op = "add_enrollment" -> add_enrollment_step(g, f)

RECURSIVE RunToCompletion(_, _)
\* the handler body from its frame's position to its return or raise
RunToCompletion(g, f) ==
    IF f.pc = "done" THEN [g |-> g, f |-> f]
    ELSE LET n == handler_step(g, f) IN RunToCompletion(n.g, n.f)

Finish(r) ==
    LET resp == The(r.f.resp) IN
    Response(resp.status, resp.detail, resp.body, r.g)

\* pydantic models (app.py:45-61): id is Optional, every other field required
StudentValid(p) == p.major # {} /\ p.email # {}
CourseValid(p) == p.title # {} /\ p.code # {} /\ p.credits # {}
EnrollmentValid(p) == p.student_id # {} /\ p.course_id # {}

-----------------------------------------------------------------------------
(* Endpoints: Depends(get_current_user), body validation, handler *)

home == Response(200, <<>>,
                 [message |-> "Welcome to the College Management API!"],
                 Globals)

get_students(token) ==
    Depends(token, Response(200, <<>>, students_db, Globals))

add_student(token, student_data) ==
    Depends(token,
        IF ~StudentValid(student_data) THEN Unprocessable
        ELSE Finish(RunToCompletion(Globals,
                                    NewFrame("add_student", student_data))))

get_student(token, student_id) ==
    Depends(token,
        IF \E i \in 1..Len(students_db) : students_db[i].id = student_id
        THEN LET idx == CHOOSE i \in 1..Len(students_db) :
                            /\ students_db[i].id = student_id
                            /\ \A j \in 1..(i - 1) :
                                   students_db[j].id # student_id
             IN  Response(200, <<>>, students_db[idx], Globals)
        ELSE Response(404, <<"Student not found">>, NoBody, Globals))

update_student(token, student_id, student_data) ==
    Depends(token,
        IF ~StudentValid(student_data) THEN Unprocessable
        ELSE IF \E i \in 1..Len(students_db) : students_db[i].id = student_id
        THEN LET idx == CHOOSE i \in 1..Len(students_db) :
                            /\ students_db[i].id = student_id
                            /\ \A j \in 1..(i - 1) :
                                   students_db[j].id # student_id
                 old == students_db[idx]
                 \* dict(exclude_unset=True) without 'id', then dict.update
                 upd == [id |-> old.id,
                         major |-> IF student_data.major # {}
                                   THEN The(student_data.major)
                                   ELSE old.major,
                         email |-> IF student_data.email # {}
                                   THEN The(student_data.email)
                                   ELSE old.email]
             IN  Response(200, <<>>, upd,
                          [Globals EXCEPT !.students_db =
                               [students_db EXCEPT ![idx] = upd]])
        ELSE Response(404, <<"Student not found">>, NoBody, Globals))

\* faulty variant: the student's enrollments are removed with it
delete_student_cascade(token, student_id) ==
    Depends(token,
        LET initial_len == Len(students_db)
            kept == Filter(students_db, student_id)
            g == [Globals EXCEPT
                    !.students_db = kept,
                    !.enrollments_db =
                        SelectSeq(enrollments_db,
                                  LAMBDA e : e.student_id # student_id)]
        IN  IF Len(kept) = initial_len
            THEN Response(404, <<"Student not found">>, NoBody, g)
            ELSE Response(204, <<>>, NoBody, g))

delete_student(token, student_id) ==
    Depends(token,
        LET initial_len == Len(students_db)
            kept == Filter(students_db, student_id)
            g == [Globals EXCEPT !.students_db = kept]
        IN  IF Len(kept) = initial_len
            THEN Response(404, <<"Student not found">>, NoBody, g)
            ELSE Response(204, <<>>, NoBody, g))

get_courses(token) ==
    Depends(token, Response(200, <<>>, courses_db, Globals))

add_course(token, course_data) ==
    Depends(token,
        IF ~CourseValid(course_data) THEN Unprocessable
        ELSE Finish(RunToCompletion(Globals,
                                    NewFrame("add_course", course_data))))

get_course(token, course_id) ==
    Depends(token,
        IF \E i \in 1..Len(courses_db) : courses_db[i].id = course_id
        THEN LET idx == CHOOSE i \in 1..Len(courses_db) :
                            /\ courses_db[i].id = course_id
                            /\ \A j \in 1..(i - 1) :
                                   courses_db[j].id # course_id
             IN  Response(200, <<>>, courses_db[idx], Globals)
        ELSE Response(404, <<"Course not found">>, NoBody, Globals))

update_course(token, course_id, course_data) ==
    Depends(token,
        IF ~CourseValid(course_data) THEN Unprocessable
        ELSE IF \E i \in 1..Len(courses_db) : courses_db[i].id = course_id
        THEN LET idx == CHOOSE i \in 1..Len(courses_db) :
                            /\ courses_db[i].id = course_id
                            /\ \A j \in 1..(i - 1) :
                                   courses_db[j].id # course_id
                 old == courses_db[idx]
                 upd == [id |-> old.id,
                         title |-> IF course_data.title # {}
                                   THEN The(course_data.title)
                                   ELSE old.title,
                         code |-> IF course_data.code # {}
                                  THEN The(course_data.code)
                                  ELSE old.code,
                         credits |-> IF course_data.credits # {}
                                     THEN The(course_data.credits)
                                     ELSE old.credits]
             IN  Response(200, <<>>, upd,
                          [Globals EXCEPT !.courses_db =
                               [courses_db EXCEPT ![idx] = upd]])
        ELSE Response(404, <<"Course not found">>, NoBody, Globals))

\* faulty variant: the counter is wound back to the ids still in use
delete_course_reuse(token, course_id) ==
    Depends(token,
        LET initial_len == Len(courses_db)
            kept == Filter(courses_db, course_id)
            g == [Globals EXCEPT !.courses_db = kept,
                                 !.next_course_id = Len(kept) + 1]
        IN  IF Len(kept) = initial_len
            THEN Response(404, <<"Course not found">>, NoBody, g)
            ELSE Response(204, <<>>, NoBody, g))

delete_course(token, course_id) ==
    Depends(token,
        LET initial_len == Len(courses_db)
            kept == Filter(courses_db, course_id)
            g == [Globals EXCEPT !.courses_db = kept]
        IN  IF Len(kept) = initial_len
            THEN Response(404, <<"Course not found">>, NoBody, g)
            ELSE Response(204, <<>>, NoBody, g))

get_enrollments(token) ==
    Depends(token, Response(200, <<>>, enrollments_db, Globals))

add_enrollment(token, enrollment_data) ==
    Depends(token,
        IF ~EnrollmentValid(enrollment_data) THEN Unprocessable
        ELSE Finish(RunToCompletion(Globals,
                        NewFrame("add_enrollment", enrollment_data))))

get_enrollment(token, enrollment_id) ==
    Depends(token,
        IF \E i \in 1..Len(enrollments_db) :
               enrollments_db[i].id = enrollment_id
        THEN LET idx == CHOOSE i \in 1..Len(enrollments_db) :
                            /\ enrollments_db[i].id = enrollment_id
                            /\ \A j \in 1..(i - 1) :
                                   enrollments_db[j].id # enrollment_id
             IN  Response(200, <<>>, enrollments_db[idx], Globals)
        ELSE Response(404, <<"Enrollment not found">>, NoBody, Globals))

\* faulty variant: the length comparison is left out
delete_enrollment_unchecked(token, enrollment_id) ==
    Depends(token,
        LET kept == Filter(enrollments_db, enrollment_id)
            g == [Globals EXCEPT !.enrollments_db = kept]
        IN  Response(204, <<>>, NoBody, g))

delete_enrollment(token, enrollment_id) ==
    Depends(token,
        LET initial_len == Len(enrollments_db)
            kept == Filter(enrollments_db, enrollment_id)
            g == [Globals EXCEPT !.enrollments_db = kept]
        IN  IF Len(kept) = initial_len
            THEN Response(404, <<"Enrollment not found">>, NoBody, g)
            ELSE Response(204, <<>>, NoBody, g))

-----------------------------------------------------------------------------
(* Requests handled one at a time *)

Init ==
    /\ students_db = <<>>
    /\ courses_db = <<>>
    /\ enrollments_db = <<>>
    /\ next_student_id = 1
    /\ next_course_id = 1
    /\ next_enrollment_id = 1
    /\ now = StartTicks
    /\ issued = {}
    /\ frames = [s \in 1..MaxInflight |-> {}]
    /\ created = [students |-> 0, courses |-> 0, enrollments |-> 0]
    /\ deleted = [students |-> {}, courses |-> {}, enrollments |-> {}]
    /\ overlapped = [students |-> 0, courses |-> 0, enrollments |-> 0]

TotalCreated == created.students + created.courses + created.enrollments

Commit(g) ==
    /\ students_db' = g.students_db
    /\ courses_db' = g.courses_db
    /\ enrollments_db' = g.enrollments_db
    /\ next_student_id' = g.next_student_id
    /\ next_course_id' = g.next_course_id
    /\ next_enrollment_id' = g.next_enrollment_id

\* A request the gate rejects never reaches its handler, whatever else it
\* carries: one body and one path id stand for all of them.
Authenticated(token) == get_current_user(token).status = 200
Body(token, payloads) ==
    IF Authenticated(token) THEN payloads ELSE {CHOOSE p \in payloads : TRUE}
Path(token) ==
    IF Authenticated(token) THEN IdInputs ELSE {CHOOSE i \in IdInputs : TRUE}

GET_root ==
    LET r == home IN
    /\ Commit(r.g)
    /\ UNCHANGED <<now, issued, frames, created, deleted, overlapped>>

GET_students ==
    \E token \in Tokens :
        LET r == get_students(token) IN
        /\ Commit(r.g)
        /\ UNCHANGED <<now, issued, frames, created, deleted, overlapped>>

POST_students ==
    \E token \in Tokens : \E student_data \in Body(token, StudentPayloads) :
        LET r == add_student(token, student_data) IN
        /\ r.status = 201 => TotalCreated < MaxCreates
        /\ Commit(r.g)
        /\ created' = IF r.status = 201
                      THEN [created EXCEPT !.students = @ + 1]
                      ELSE created
        /\ UNCHANGED <<now, issued, frames, deleted, overlapped>>

GET_student ==
    \E token \in Tokens : \E student_id \in Path(token) :
        LET r == get_student(token, student_id) IN
        /\ Commit(r.g)
        /\ UNCHANGED <<now, issued, frames, created, deleted, overlapped>>

PUT_student ==
    \E token \in Tokens : \E student_id \in Path(token) :
    \E student_data \in Body(token, StudentPayloads) :
        LET r == update_student(token, student_id, student_data) IN
        /\ Commit(r.g)
        /\ UNCHANGED <<now, issued, frames, created, deleted, overlapped>>

DELETE_student ==
    \E token \in Tokens : \E student_id \in Path(token) :
        LET r == delete_student(token, student_id) IN
        /\ Commit(r.g)
        /\ deleted' = IF r.status = 204
                      THEN [deleted EXCEPT !.students = @ \cup {student_id}]
                      ELSE deleted
        /\ UNCHANGED <<now, issued, frames, created, overlapped>>

GET_courses ==
    \E token \in Tokens :
        LET r == get_courses(token) IN
        /\ Commit(r.g)
        /\ UNCHANGED <<now, issued, frames, created, deleted, overlapped>>

POST_courses ==
    \E token \in Tokens : \E course_data \in Body(token, CoursePayloads) :
        LET r == add_course(token, course_data) IN
        /\ r.status = 201 => TotalCreated < MaxCreates
        /\ Commit(r.g)
        /\ created' = IF r.status = 201
                      THEN [created EXCEPT !.courses = @ + 1]
                      ELSE created
        /\ UNCHANGED <<now, issued, frames, deleted, overlapped>>

GET_course ==
    \E token \in Tokens : \E course_id \in Path(token) :
        LET r == get_course(token, course_id) IN
        /\ Commit(r.g)
        /\ UNCHANGED <<now, issued, frames, created, deleted, overlapped>>

PUT_course ==
    \E token \in Tokens : \E course_id \in Path(token) :
    \E course_data \in Body(token, CoursePayloads) :
        LET r == update_course(token, course_id, course_data) IN
        /\ Commit(r.g)
        /\ UNCHANGED <<now, issued, frames, created, deleted, overlapped>>

DELETE_course ==
    \E token \in Tokens : \E course_id \in Path(token) :
        LET r == delete_course(token, course_id) IN
        /\ Commit(r.g)
        /\ deleted' = IF r.status = 204
                      THEN [deleted EXCEPT !.courses = @ \cup {course_id}]
                      ELSE deleted
        /\ UNCHANGED <<now, issued, frames, created, overlapped>>

GET_enrollments ==
    \E token \in Tokens :
        LET r == get_enrollments(token) IN
        /\ Commit(r.g)
        /\ UNCHANGED <<now, issued, frames, created, deleted, overlapped>>

POST_enrollments ==
    \E token \in Tokens : \E enrollment_data \in Body(token, EnrollmentPayloads) :
        LET r == add_enrollment(token, enrollment_data) IN
        /\ r.status = 201 => TotalCreated < MaxCreates
        /\ Commit(r.g)
        /\ created' = IF r.status = 201
                      THEN [created EXCEPT !.enrollments = @ + 1]
                      ELSE created
        /\ UNCHANGED <<now, issued, frames, deleted, overlapped>>

GET_enrollment ==
    \E token \in Tokens : \E enrollment_id \in Path(token) :
        LET r == get_enrollment(token, enrollment_id) IN
        /\ Commit(r.g)
        /\ UNCHANGED <<now, issued, frames, created, deleted, overlapped>>

DELETE_enrollment ==
    \E token \in Tokens : \E enrollment_id \in Path(token) :
        LET r == delete_enrollment(token, enrollment_id) IN
        /\ Commit(r.g)
        /\ deleted' = IF r.status = 204
                      THEN [deleted EXCEPT !.enrollments = @ \cup {enrollment_id}]
                      ELSE deleted
        /\ UNCHANGED <<now, issued, frames, created, overlapped>>

Next ==
    \/ GET_root
    \/ GET_students \/ POST_students \/ GET_student \/ PUT_student
    \/ DELETE_student
    \/ GET_courses \/ POST_courses \/ GET_course \/ PUT_course
    \/ DELETE_course
    \/ GET_enrollments \/ POST_enrollments \/ GET_enrollment
    \/ DELETE_enrollment

Spec == Init /\ [][Next]_vars

-----------------------------------------------------------------------------
(* The token service over time *)

\* a client holds the token it was last issued; it asks for one when the
\* service starts and again once the one it holds is refused
Refused == \E i \in issued : get_current_user(i.access_token).status = 401

POST_token ==
    \E username \in Usernames, password \in Passwords :
        LET r == login_for_access_token(username, password) IN
        /\ now <= MaxIssueTicks \/ Refused
        /\ issued' = IF r.status = 200
                     THEN {[access_token |-> The(r.body).access_token,
                            token_type |-> The(r.body).token_type,
                            username |-> username, at |-> now]}
                     ELSE issued
        /\ UNCHANGED <<store, now, frames, created, deleted, overlapped>>

\* the client sends the token it holds
GET_students_bearer ==
    \E i \in issued :
        LET r == get_students(i.access_token) IN
        /\ Commit(r.g)
        /\ UNCHANGED <<now, issued, frames, created, deleted, overlapped>>

Tick ==
    /\ now < MaxNow
    /\ now' = now + 1
    /\ UNCHANGED <<store, issued, frames, created, deleted, overlapped>>

NextToken == POST_token \/ GET_students_bearer \/ Tick

SpecToken == Init /\ [][NextToken]_vars

-----------------------------------------------------------------------------
(* Requests in flight together.  Every handler is an async def whose body   *)
(* holds no await: the event loop runs a handler it has started up to its   *)
(* return before it runs anything else.                                      *)

\* whether the coroutine yields to the event loop after the statement at pc
\* faulty variant: every statement is a point where another handler can run,
\* as for a plain def handler run in the thread pool
SuspendsAlways(op, pc) == TRUE

Suspends(op, pc) == FALSE

RECURSIVE RunSlice(_, _)
\* one turn of the event loop on a frame: up to its next suspension
RunSlice(g, f) ==
    LET n == handler_step(g, f) IN
    IF n.f.pc = "done" \/ Suspends(f.op, f.pc) THEN n
    ELSE RunSlice(n.g, n.f)

\* request bodies of the Creates in flight
InflightBodies(op) ==
    CASE op = "add_student" ->
           {p \in StudentPayloads : StudentValid(p) /\ p.id = {}}
      [] op = "add_course" ->
           {p \in CoursePayloads : CourseValid(p) /\ p.id = {}}
      [] op = "add_enrollment" ->
           {p \in EnrollmentPayloads :
               /\ p.id = {}
               /\ p.student_id = {1} /\ p.course_id = {1}}

CreateOps == {"add_student", "add_course", "add_enrollment"}
Collection(op) ==
    CASE op = "add_student" -> "students"
      [] op = "add_course" -> "courses"
      [] op = "add_enrollment" -> "enrollments"

InFlight == Cardinality({s \in 1..MaxInflight : frames[s] # {}})

\* the gate and the body validation have passed; the coroutine is scheduled
Receive ==
    \E s \in 1..MaxInflight, op \in CreateOps :
      \E data \in InflightBodies(op) :
        LET peers == {q \in 1..MaxInflight :
                         frames[q] # {} /\ The(frames[q]).op = op}
        IN  /\ frames[s] = {}
            /\ \E token \in Tokens : Authenticated(token)
            /\ TotalCreated + InFlight < MaxCreates
            /\ frames' = [q \in 1..MaxInflight |->
                            IF q = s
                            THEN {[NewFrame(op, data) EXCEPT
                                      !.peer = peers # {}]}
                            ELSE IF q \in peers
                            THEN {[The(frames[q]) EXCEPT !.peer = TRUE]}
                            ELSE frames[q]]
            /\ UNCHANGED <<store, now, issued, created, deleted, overlapped>>

\* the event loop gives the frame a turn; a finished frame is answered
Resume ==
    \E s \in 1..MaxInflight :
        /\ frames[s] # {}
        /\ LET f == The(frames[s])
               n == RunSlice(Globals, f)
               done == n.f.pc = "done"
               made == done /\ The(n.f.resp).status = 201
           IN  /\ Commit(n.g)
               /\ frames' = [frames EXCEPT ![s] = IF done THEN {} ELSE {n.f}]
               /\ created' = IF made
                             THEN [created EXCEPT ![Collection(f.op)] = @ + 1]
                             ELSE created
               /\ overlapped' = IF made /\ f.peer
                                THEN [overlapped EXCEPT
                                         ![Collection(f.op)] = @ + 1]
                                ELSE overlapped
        /\ UNCHANGED <<now, issued, deleted>>

NextConcurrent == Receive \/ Resume

SpecConcurrent == Init /\ [][NextConcurrent]_vars

-----------------------------------------------------------------------------
(* Vocabulary of the properties *)

Missing(t) == t.kind = "none"
Malformed(t) == t.kind = "garbage"
WronglySigned(t) == t.kind = "jwt" /\ t.key # SECRET_KEY
\* the whole second its exp claim names is over
Expired(t) == t.kind = "jwt" /\ t.exp # {}
              /\ (The(t.exp) + 1) * TicksPerSecond <= now
WrongSubject(t) == t.kind = "jwt" /\ (t.sub = {} \/ The(t.sub) # VALID_USERNAME)
Invalid(t) == \/ Missing(t) \/ Malformed(t) \/ WronglySigned(t)
              \/ Expired(t) \/ WrongSubject(t)
ValidTokens == {t \in Tokens : ~Invalid(t)}

Unauthorized(r) == r.status = 401 /\ r.g = Globals
NotFound(r) == r.status = 404

\* db without its k-th record, the others in their order
Without(db, k) == SubSeq(db, 1, k - 1) \o SubSeq(db, k + 1, Len(db))

Increasing(db) == \A i, j \in 1..Len(db) : i < j => db[i].id < db[j].id

-----------------------------------------------------------------------------
(* C1: handled one at a time, the k-th successful Create of a collection     *)
(* receives id k whatever Updates, Deletes and failed operations come        *)
(* between; with no deletion the stored ids are 1..N in call order; an id    *)
(* once deleted is never handed out again.                                   *)

KthCreate(r, db, k, gone) ==
    r.status = 201 =>
        /\ r.body.id = k + 1
        /\ r.body.id \notin Ids(db)
        /\ r.body.id \notin gone

InCallOrder(db, k, gone) ==
    /\ Increasing(db)
    /\ Ids(db) \cup gone = 1..k
    /\ gone = {} => /\ Len(db) = k
                    /\ \A i \in 1..Len(db) : db[i].id = i

C1_KthCreateGetsIdK ==
    /\ InCallOrder(students_db, created.students, deleted.students)
    /\ InCallOrder(courses_db, created.courses, deleted.courses)
    /\ InCallOrder(enrollments_db, created.enrollments, deleted.enrollments)
    /\ \A t \in ValidTokens :
        /\ \A p \in StudentPayloads :
               /\ StudentValid(p) => add_student(t, p).status = 201
               /\ KthCreate(add_student(t, p), students_db,
                            created.students, deleted.students)
        /\ \A p \in CoursePayloads :
               /\ CourseValid(p) => add_course(t, p).status = 201
               /\ KthCreate(add_course(t, p), courses_db,
                            created.courses, deleted.courses)
        /\ \A p \in EnrollmentPayloads :
               KthCreate(add_enrollment(t, p), enrollments_db,
                         created.enrollments, deleted.enrollments)

\* a Create after a Delete: the survivor carries id 2, id 1 is gone
C1_Witness ==
    /\ 1 \in deleted.students
    /\ created.students = 2
    /\ Ids(students_db) = {2}

-----------------------------------------------------------------------------
(* C2 as stated: a missing student gives NotFound naming the student id, a   *)
(* missing course gives NotFound naming the course id, both present gives    *)
(* one appended record; a failure changes nothing.                           *)

NamesStudent(r, p) ==
    r.detail = <<"Student with ID ", The(p.student_id), " not found">>
NamesCourse(r, p) ==
    r.detail = <<"Course with ID ", The(p.course_id), " not found">>

Admitted(r, p) ==
    /\ r.status = 201
    /\ r.body = [id |-> next_enrollment_id,
                 student_id |-> The(p.student_id),
                 course_id |-> The(p.course_id)]
    /\ r.g = [Globals EXCEPT
                !.enrollments_db = Append(enrollments_db, r.body),
                !.next_enrollment_id = next_enrollment_id + 1]

C2_AsStated ==
    \A t \in ValidTokens : \A p \in EnrollmentPayloads :
        EnrollmentValid(p) =>
            LET r == add_enrollment(t, p)
                noStudent == The(p.student_id) \notin Ids(students_db)
                noCourse == The(p.course_id) \notin Ids(courses_db)
            IN  /\ noStudent =>
                       NotFound(r) /\ NamesStudent(r, p) /\ r.g = Globals
                /\ noCourse =>
                       NotFound(r) /\ NamesCourse(r, p) /\ r.g = Globals
                /\ ~noStudent /\ ~noCourse => Admitted(r, p)

(* C2 amended: the course is named only when the student exists; when both  *)
(* are missing the error names the student.                                  *)
C2_EnrollmentChecks ==
    \A t \in ValidTokens : \A p \in EnrollmentPayloads :
        EnrollmentValid(p) =>
            LET r == add_enrollment(t, p)
                noStudent == The(p.student_id) \notin Ids(students_db)
                noCourse == The(p.course_id) \notin Ids(courses_db)
            IN  /\ noStudent =>
                       NotFound(r) /\ NamesStudent(r, p) /\ r.g = Globals
                /\ ~noStudent /\ noCourse =>
                       NotFound(r) /\ NamesCourse(r, p) /\ r.g = Globals
                /\ ~noStudent /\ ~noCourse => Admitted(r, p)

\* an enrollment was admitted; its course has since gone, so the same body
\* sent again passes the student check and fails the course check
C2_Witness ==
    \E i \in 1..Len(enrollments_db) :
        /\ enrollments_db[i].student_id \in Ids(students_db)
        /\ enrollments_db[i].course_id \notin Ids(courses_db)

-----------------------------------------------------------------------------
(* C3: Update of an existing Student or Course with any subset of the        *)
(* non-id fields succeeds, overwrites the fields present, keeps the fields   *)
(* absent and the id, and leaves the other records alone.                    *)

Overwrite(old, p, field) == IF p[field] # {} THEN The(p[field]) ELSE old[field]

C3_PartialUpdate ==
    \A t \in ValidTokens :
        /\ \A i \in 1..Len(students_db) : \A p \in StudentPayloads :
               LET old == students_db[i]
                   r == update_student(t, old.id, p)
               IN  /\ r.status = 200
                   /\ r.body = [id |-> old.id,
                                major |-> Overwrite(old, p, "major"),
                                email |-> Overwrite(old, p, "email")]
                   /\ r.g = [Globals EXCEPT !.students_db =
                                 [students_db EXCEPT ![i] = r.body]]
        /\ \A i \in 1..Len(courses_db) : \A p \in CoursePayloads :
               LET old == courses_db[i]
                   r == update_course(t, old.id, p)
               IN  /\ r.status = 200
                   /\ r.body = [id |-> old.id,
                                title |-> Overwrite(old, p, "title"),
                                code |-> Overwrite(old, p, "code"),
                                credits |-> Overwrite(old, p, "credits")]
                   /\ r.g = [Globals EXCEPT !.courses_db =
                                 [courses_db EXCEPT ![i] = r.body]]

-----------------------------------------------------------------------------
(* C4: Delete(id) succeeds exactly when a record with that id is stored,     *)
(* then removes that record and keeps the others in order; otherwise it is   *)
(* NotFound and the collection is as before.  No id is deleted twice.        *)

DeletesOne(r, id, db, newdb, gone) ==
    /\ r.status = 204 <=> id \in Ids(db)
    /\ r.status = 204 =>
           \E k \in 1..Len(db) : db[k].id = id /\ newdb = Without(db, k)
    /\ r.status # 204 => NotFound(r) /\ r.g = Globals
    /\ id \in gone => NotFound(r)

C4_DeleteOnce ==
    \A t \in ValidTokens : \A id \in IdInputs :
        /\ DeletesOne(delete_student(t, id), id, students_db,
                      delete_student(t, id).g.students_db, deleted.students)
        /\ DeletesOne(delete_course(t, id), id, courses_db,
                      delete_course(t, id).g.courses_db, deleted.courses)
        /\ DeletesOne(delete_enrollment(t, id), id, enrollments_db,
                      delete_enrollment(t, id).g.enrollments_db,
                      deleted.enrollments)

\* the middle one of three students was deleted, the outer two are stored
C4_Witness ==
    /\ deleted.students = {2}
    /\ Len(students_db) = 2
    /\ students_db[1].id = 1 /\ students_db[2].id = 3

-----------------------------------------------------------------------------
(* C5: every operation but the greeting and the token issuance, called with  *)
(* a missing, malformed, wrongly signed, expired or wrong-subject token, is  *)
(* answered 401 and leaves the three collections and counters as they were.  *)

-----------------------------------------------------------------------------
(* C8: Delete of a stored Student or Course succeeds whether or not          *)
(* enrollments reference it and changes its own collection only; an          *)
(* enrollment left dangling is still returned by GetByID and List.           *)

C8_NoCascade ==
    \A t \in ValidTokens :
        /\ \A id \in Ids(students_db) :
               LET r == delete_student(t, id) IN
               /\ r.status = 204
               /\ r.g = [Globals EXCEPT !.students_db = r.g.students_db]
        /\ \A id \in Ids(courses_db) :
               LET r == delete_course(t, id) IN
               /\ r.status = 204
               /\ r.g = [Globals EXCEPT !.courses_db = r.g.courses_db]
        /\ get_enrollments(t).status = 200
        /\ get_enrollments(t).body = enrollments_db
        /\ \A i \in 1..Len(enrollments_db) :
               LET r == get_enrollment(t, enrollments_db[i].id) IN
               /\ r.status = 200
               /\ r.body = enrollments_db[i]

\* a stored enrollment whose student and course were both deleted
C8_Witness ==
    \E i \in 1..Len(enrollments_db) :
        /\ enrollments_db[i].student_id \in deleted.students
        /\ enrollments_db[i].course_id \in deleted.courses
        /\ enrollments_db[i].student_id \notin Ids(students_db)
        /\ enrollments_db[i].course_id \notin Ids(courses_db)

-----------------------------------------------------------------------------
(* C10: every stored enrollment carries ids that were once assigned,         *)
(* 1 <= id < counter for its own id, its student_id and its course_id, and   *)
(* no later Create can give a student or course the id a dangling            *)
(* enrollment points at.                                                     *)

C10_EnrollmentIdsAssigned ==
    \A i \in 1..Len(enrollments_db) :
        LET e == enrollments_db[i] IN
        /\ 1 <= e.student_id /\ e.student_id < next_student_id
        /\ 1 <= e.course_id /\ e.course_id < next_course_id
        /\ 1 <= e.id /\ e.id < next_enrollment_id
        /\ \A t \in ValidTokens :
            /\ \A p \in StudentPayloads :
                   LET r == add_student(t, p) IN
                   r.status = 201 /\ e.student_id \notin Ids(students_db)
                       => r.body.id # e.student_id
            /\ \A p \in CoursePayloads :
                   LET r == add_course(t, p) IN
                   r.status = 201 /\ e.course_id \notin Ids(courses_db)
                       => r.body.id # e.course_id

\* an enrollment dangles on its student while its course is still stored
C10_Witness ==
    \E i \in 1..Len(enrollments_db) :
        /\ enrollments_db[i].student_id \notin Ids(students_db)
        /\ enrollments_db[i].course_id \in Ids(courses_db)
        /\ enrollments_db[i].student_id < next_student_id

-----------------------------------------------------------------------------
(* C6 as stated: a token issued at t authenticates as the original username  *)
(* at every time before t + 60 minutes and is refused at every time after    *)
(* its expiry.                                                               *)

AuthenticatesAs(i) ==
    /\ get_current_user(i.access_token).status = 200
    /\ get_current_user(i.access_token).user = {i.username}

C6_AsStated ==
    \A i \in issued :
        /\ now < i.at + ExpireTicks => AuthenticatesAs(i)
        /\ now > i.at + ExpireTicks =>
               get_current_user(i.access_token).status = 401

(* C6 amended: expiry is compared in whole seconds, so the token is refused  *)
(* at every time a full second or more after t + 60 minutes (and may still   *)
(* be accepted within that second); its exp claim is the one it was issued   *)
(* with.                                                                     *)
C6_TokenLifetime ==
    \A i \in issued :
        /\ i.access_token.exp = {UtcSeconds(i.at + ExpireTicks)}
        /\ now < i.at + ExpireTicks => AuthenticatesAs(i)
        /\ now >= i.at + ExpireTicks + TicksPerSecond =>
               get_current_user(i.access_token).status = 401

\* a held token has outlived its hour by a second and is refused
C6_Witness ==
    \E i \in issued :
        /\ now >= i.at + ExpireTicks + TicksPerSecond
        /\ Refused

-----------------------------------------------------------------------------
(* C7: the token endpoint issues a bearer token exactly for the fixed        *)
(* username with the fixed password; every other pair gets one and the same  *)
(* 401 and no token.                                                         *)

C7_LoginIffCredentials ==
    \A u \in Usernames, p \in Passwords :
        LET r == login_for_access_token(u, p) IN
        /\ r.status = 200 <=> (u = VALID_USERNAME /\ p = VALID_PASSWORD)
        /\ r.status = 200 =>
               /\ Cardinality(r.body) = 1
               /\ The(r.body).token_type = "bearer"
               /\ get_current_user(The(r.body).access_token).user = {u}
        /\ r.status # 200 =>
               /\ r.status = 401
               /\ r.body = {}
               /\ \A u2 \in Usernames, p2 \in Passwords :
                      login_for_access_token(u2, p2).status # 200
                          => login_for_access_token(u2, p2) = r

\* a token was just issued, to the fixed account
C7_Witness ==
    \E i \in issued :
        /\ i.at = now
        /\ i.username = VALID_USERNAME
        /\ i.token_type = "bearer"

-----------------------------------------------------------------------------
(* C9 as stated: two Creates on one collection in flight together end with   *)
(* two records of the same id or with an id skipped.                         *)

Duplicate(db) == \E i, j \in 1..Len(db) : i # j /\ db[i].id = db[j].id
Skipped(db, next) == \E k \in 1..(next - 1) : k \notin Ids(db)

=============================================================================
